---- MODULE Spec2Model ----
(***************************************************************************)
(* State-machine model of the workout reminder bot: the chat command       *)
(* handlers (bot.py), the APScheduler based job registry (scheduler.py)    *)
(* and the record store with its analytics (db.py).                        *)
(*                                                                         *)
(* Time is counted in minutes of local wall clock since the local Monday   *)
(* 00:00 of week 0.  A value t stands for the whole minute [t, t+1): the   *)
(* scheduler wakes at the start of the minute, handlers run inside it.     *)
(* Timestamps the code stores with datetime.utcnow() are UTC minutes.      *)
(***************************************************************************)
EXTENDS Integers, Sequences, FiniteSets, TLC

(* ------------------------------ bounds -------------------------------- *)
MaxRules == 2        \* rule rows ever created (ids 1..MaxRules)
MaxDone == 2         \* rows of completed_workouts
MaxRows == 3         \* rows of weekly_summaries
MaxDay == 14         \* last local day on which jobs are followed
MaxRestoreRuns == 2  \* runs of restore_reminders_from_db per start
MaxDayTokens == 2    \* tokens in the day list of a /days request

(* ------------------------- program constants -------------------------- *)
DayMin == 1440
WeekDays == 7
LmtOffset == 308     \* pytz Asia/Almaty as tzinfo= : LMT+5:08
ZoneOffsets == {300, 360}   \* Asia/Almaty: +05 (tzdata >= 2024a), +06 (older)

Owners == {1, 2}
Texts == {"Run", "Gym"}
TimesOfDay == {420}                       \* 07:00
BadTimes == {1500}                        \* "25:00": rejected by the regex
RuDays == <<"pn", "vt", "sr", "cht", "pt", "sb", "vs">>
EnDays == <<"mon", "tue", "wed", "thu", "fri", "sat", "sun">>
DayInputs == {<<"pn", "sr">>, <<"mon", "fri", "mon">>, <<"xx">>, <<>>}

\* instants (local day, minute of day) at which requests, crashes and
\* restarts are observed; job fire instants are added by NextWake
GridPoints == {<<WeekDays - 1, 30>>, <<WeekDays - 1, 420>>, <<WeekDays - 1, 1435>>,
               <<WeekDays, 30>>, <<2 * WeekDays, 30>>}
Grid == {p[1] * DayMin + p[2] : p \in GridPoints}
Horizon == MaxDay * DayMin + (DayMin - 1)
None == 0 - 1

VARIABLES
  now,         \* local wall clock, minutes
  utcOffset,   \* offset of the configured zone the tz database reports
  phase,       \* "down" | "starting" | "running"
  restoreRuns, \* restore_reminders_from_db runs since the last start
  users,       \* users table: telegram id -> created_at (UTC) or None
  rules,       \* reminders table: id -> row
  nextId,      \* next autoincrement id of reminders
  jobs,        \* scheduler job store: job id -> job
  inflight,    \* send_reminder coroutines awaiting bot.send_message
  done,        \* completed_workouts table, in insertion order
  summaries,   \* weekly_summaries table, in insertion order
  hist,        \* per rule id: dispatch history
  reply        \* the list sent by the last /stats or /weeks

vars == <<now, utcOffset, phase, restoreRuns, users, rules, nextId, jobs,
          inflight, done, summaries, hist, reply>>

(* ------------------------------ time ---------------------------------- *)
ToUtc(l) == l - utcOffset            \* astimezone(pytz.utc) of a localized time
FromUtc(u) == u + utcOffset          \* replace(tzinfo=utc).astimezone(tz)
UtcNow == ToUtc(now)                 \* datetime.utcnow()
DateOf(l) == l \div DayMin           \* .date() as a day number; day 0 is a Monday
MinuteOf(l) == l % DayMin
Weekday(d) == d % WeekDays           \* date.weekday(), Monday = 0
Today == DateOf(now)

Min(S) == CHOOSE x \in S : \A y \in S : x <= y

(* -------------------------- bot.py helpers ---------------------------- *)
\* a time check that lets every string through
validate_time_format_any(t) == TRUE

validate_time_format(t) == t \in 0..(DayMin - 1)

IndexIn(seq, tok) ==
  IF \E i \in 1..Len(seq) : seq[i] = tok
  THEN (CHOOSE i \in 1..Len(seq) : seq[i] = tok) - 1
  ELSE None

mapping(tok) == IF IndexIn(RuDays, tok) # None THEN IndexIn(RuDays, tok)
                ELSE IndexIn(EnDays, tok)

\* the list of day numbers passed on with its repetitions
DedupSkipped(s) == s

RECURSIVE Dedup(_)
Dedup(s) ==
  IF s = <<>> THEN <<>>
  ELSE LET init == SubSeq(s, 1, Len(s) - 1)
           x == s[Len(s)]
       IN IF \E i \in 1..Len(init) : init[i] = x THEN Dedup(init)
          ELSE Append(Dedup(init), x)

\* parse_days: <<ok, list of day numbers>>
parse_days(items) ==
  IF items = <<>> THEN <<FALSE, <<>>>>
  ELSE IF \E i \in 1..Len(items) : mapping(items[i]) = None THEN <<FALSE, <<>>>>
  ELSE <<TRUE, Dedup([i \in 1..Len(items) |-> mapping(items[i])])>>

\* the day list rendered with the English tokens
days_list_to_str_en(nums) == [i \in 1..Len(nums) |-> EnDays[nums[i] + 1]]

days_list_to_str(nums) == [i \in 1..Len(nums) |-> RuDays[nums[i] + 1]]

(* ------------------------ scheduler.py helpers ------------------------ *)
\* a job id built without the rule id
JobIdOfOwner(kind, rid, tg) == <<kind, 0, tg>>

\* a job id that also depends on the run that registers the job
JobIdPerRun(kind, rid, tg) == <<kind, rid, tg + restoreRuns>>

\* f"{kind}_{reminder_id}_{user_telegram_id}"
JobId(kind, rid, tg) == <<kind, rid, tg>>

\* day numbers read with Sunday as day 0 of the cron week
day_numbers_sunday_first(daysStr) ==
  {(IndexIn(RuDays, daysStr[i]) + 1) % WeekDays :
     i \in {k \in 1..Len(daysStr) : IndexIn(RuDays, daysStr[k]) # None}}

\* day_mapping of schedule_days_reminder: Russian tokens only, unknown skipped
day_numbers(daysStr) ==
  {IndexIn(RuDays, daysStr[i]) : i \in 1..Len(daysStr)} \ {None}

AllDows == 0..(WeekDays - 1)

\* CronTrigger.get_next_fire_time: first matching local minute after now
NextCron(time, dows) ==
  Min({t \in {d * DayMin + time : d \in Today..(Today + WeekDays)} :
         t > now /\ Weekday(DateOf(t)) \in dows})

EmptyFn == [x \in {} |-> 0]
Put(f, k, v) == [x \in (DOMAIN f) \cup {k} |-> IF x = k THEN v ELSE f[x]]
Drop(f, k) == [x \in (DOMAIN f) \ {k} |-> f[x]]

\* scheduler.add_job(..., id=job_id, replace_existing=True)
add_job(J, id, job) == Put(J, id, job)

\* a cancel that leaves a job alone while a send for its rule is pending
remove_job_idle(J, id) ==
  IF id \in DOMAIN J /\ \A f \in inflight : f.rid # J[id].rid
  THEN Drop(J, id) ELSE J

\* remove_job: removes the job when the store has it, otherwise nothing
remove_job(J, id) == IF id \in DOMAIN J THEN Drop(J, id) ELSE J

NoJob == <<>>

\* schedule_*_reminder: <<job store, job id or NoJob>>
schedule_once_reminder(J, rid, tg, time, text) ==
  LET target == Today * DayMin + time
      id == JobId("once", rid, tg)
  IN IF target <= now THEN <<J, NoJob>>
     ELSE <<add_job(J, id, [rid |-> rid, tg |-> tg, text |-> text, kind |-> "once",
                            time |-> time, dows |-> {}, next |-> target]), id>>

schedule_everyday_reminder(J, rid, tg, time, text) ==
  LET id == JobId("everyday", rid, tg)
  IN <<add_job(J, id, [rid |-> rid, tg |-> tg, text |-> text, kind |-> "everyday",
                       time |-> time, dows |-> AllDows,
                       next |-> NextCron(time, AllDows)]), id>>

schedule_days_reminder(J, rid, tg, time, daysStr, text) ==
  LET nums == day_numbers(daysStr)
      id == JobId("days", rid, tg)
  IN IF nums = {} THEN <<J, NoJob>>
     ELSE <<add_job(J, id, [rid |-> rid, tg |-> tg, text |-> text, kind |-> "days",
                            time |-> time, dows |-> nums,
                            next |-> NextCron(time, nums)]), id>>

(* ----------------------------- db.py ---------------------------------- *)
\* get_or_create_user: the row keeps its created_at once it exists
get_or_create_user(U, tg) == IF U[tg] = None THEN [U EXCEPT ![tg] = UtcNow] ELSE U

create_reminder(R, rid, uid, kind, time, text, daysStr) ==
  Put(R, rid, [owner |-> uid, kind |-> kind, time |-> time, days |-> daysStr,
               text |-> text, active |-> TRUE, created |-> UtcNow, job_id |-> NoJob])

get_active_reminders(R) == {rid \in DOMAIN R : R[rid].active}

\* the lookup of an active row with no user filter at all
get_reminder_by_id_any_owner(R, rid, uid) == rid \in DOMAIN R /\ R[rid].active

\* get_reminder_by_id: only an active row; user filter when user_id is truthy
get_reminder_by_id(R, rid, uid) ==
  rid \in DOMAIN R /\ R[rid].active /\ (uid # 0 => R[rid].owner = uid)

\* get_any_reminder_by_id: any row; user filter when user_id is truthy
get_any_reminder_by_id(R, rid, uid) ==
  rid \in DOMAIN R /\ (uid # 0 => R[rid].owner = uid)

\* the user filter applied also when no user id is passed
delete_reminder_filtered(R, rid, uid) ==
  IF rid \in DOMAIN R /\ R[rid].owner = uid THEN Drop(R, rid) ELSE R

\* delete_reminder: hard delete of the row; uid = 0 is the call without user_id
delete_reminder(R, rid, uid) ==
  IF rid \in DOMAIN R /\ (uid # 0 => R[rid].owner = uid) THEN Drop(R, rid) ELSE R

rename_reminder(R, rid, uid, text) ==
  IF get_reminder_by_id(R, rid, uid) THEN [R EXCEPT ![rid].text = text] ELSE R

set_job_id(R, rid, id) ==
  IF rid \in DOMAIN R THEN [R EXCEPT ![rid].job_id = id] ELSE R

\* an insert that keeps only the latest event of a rule
mark_workout_completed_latest(D, rid, uid, text) ==
  Append(SelectSeq(D, LAMBDA e : e.rid # rid),
         [owner |-> uid, rid |-> rid, at |-> UtcNow, text |-> text])

mark_workout_completed(D, rid, uid, text) ==
  Append(D, [owner |-> uid, rid |-> rid, at |-> UtcNow, text |-> text])

\* the count over the rows whatever their is_active flag
_planned_for_day_any_state(R, uid, d) ==
  Cardinality({rid \in DOMAIN R :
     /\ R[rid].owner = uid
     /\ \/ R[rid].kind = "everyday"
        \/ /\ R[rid].kind = "days"
           /\ \E i \in 1..Len(R[rid].days) : R[rid].days[i] = RuDays[Weekday(d) + 1]})

\* _planned_for_day: active everyday rules + active days rules naming the weekday
_planned_for_day(R, uid, d) ==
  Cardinality({rid \in DOMAIN R :
     /\ R[rid].owner = uid /\ R[rid].active
     /\ \/ R[rid].kind = "everyday"
        \/ /\ R[rid].kind = "days"
           /\ R[rid].days # <<>>
           /\ \E i \in 1..Len(R[rid].days) : R[rid].days[i] = RuDays[Weekday(d) + 1]})

\* local Monday 00:00 and Sunday 23:59 built with tzinfo=tz, then astimezone(utc)
week_start_utc(cur) == cur * DayMin - LmtOffset
week_end_utc(cur) == (cur + WeekDays - 1) * DayMin + (DayMin - 1) - LmtOffset

\* done_total of the week starting on local date cur
week_done_total(D, uid, cur) ==
  Cardinality({i \in 1..Len(D) :
     /\ D[i].owner = uid
     /\ D[i].at >= week_start_utc(cur) /\ D[i].at <= week_end_utc(cur)
     /\ DateOf(FromUtc(D[i].at)) \in cur..(cur + WeekDays - 1)})

RECURSIVE SumPlanned(_, _, _, _)
SumPlanned(R, uid, d, n) ==
  IF n = 0 THEN 0 ELSE _planned_for_day(R, uid, d) + SumPlanned(R, uid, d + 1, n - 1)

week_planned_total(R, uid, cur) == SumPlanned(R, uid, cur, WeekDays)

\* local dates the user's first activity can be derived from
start_candidates(U, R, D, uid) ==
  (IF U[uid] # None THEN {DateOf(FromUtc(U[uid]))} ELSE {})
  \cup {DateOf(FromUtc(R[rid].created)) : rid \in {x \in DOMAIN R : R[x].owner = uid}}
  \cup {DateOf(FromUtc(D[i].at)) : i \in {x \in 1..Len(D) : D[x].owner = uid}}

\* local Monday dates of the weeks already stored for the user
have_weeks(S, uid) ==
  {DateOf(FromUtc(S[i].week_start)) : i \in {x \in 1..Len(S) : S[x].owner = uid}}

\* the loop without the test for a week with nothing planned and nothing done
RECURSIVE FinalizeLoopNoSkip(_, _, _, _, _, _, _, _)
FinalizeLoopNoSkip(R, D, uid, have, this_monday, cur, S, created) ==
  IF ~(cur < this_monday) THEN <<S, created>>
  ELSE IF cur \in have \/ ~(cur + WeekDays - 1 < this_monday)
       THEN FinalizeLoopNoSkip(R, D, uid, have, this_monday, cur + WeekDays, S,
                               created)
  ELSE FinalizeLoopNoSkip(R, D, uid, have, this_monday, cur + WeekDays,
         Append(S, [owner |-> uid, week_start |-> week_start_utc(cur),
                    week_end |-> week_end_utc(cur),
                    done_total |-> week_done_total(D, uid, cur),
                    planned_total |-> week_planned_total(R, uid, cur)]),
         created + 1)

\* the while loop of finalize_past_weeks: <<weekly_summaries, created>>
RECURSIVE FinalizeLoop(_, _, _, _, _, _, _, _)
FinalizeLoop(R, D, uid, have, this_monday, cur, S, created) ==
  IF ~(cur < this_monday) THEN <<S, created>>
  ELSE IF cur \in have \/ ~(cur + WeekDays - 1 < this_monday)
       THEN FinalizeLoop(R, D, uid, have, this_monday, cur + WeekDays, S, created)
  ELSE LET planned_total == week_planned_total(R, uid, cur)
           done_total == week_done_total(D, uid, cur)
       IN IF planned_total = 0 /\ done_total = 0
          THEN FinalizeLoop(R, D, uid, have, this_monday, cur + WeekDays, S, created)
          ELSE FinalizeLoop(R, D, uid, have, this_monday, cur + WeekDays,
                 Append(S, [owner |-> uid, week_start |-> week_start_utc(cur),
                            week_end |-> week_end_utc(cur),
                            done_total |-> done_total,
                            planned_total |-> planned_total]),
                 created + 1)

\* a finalize that drops the stored rows and computes every past week again
finalize_past_weeks_rebuild(U, R, D, S, uid) ==
  LET this_monday == Today - Weekday(Today)
      candidates == start_candidates(U, R, D, uid)
  IN IF candidates = {} THEN <<S, 0>>
     ELSE LET start_date == Min(candidates)
              start_monday == start_date - Weekday(start_date)
          IN FinalizeLoop(R, D, uid, {}, this_monday, start_monday, <<>>, 0)

finalize_past_weeks(U, R, D, S, uid) ==
  LET this_monday == Today - Weekday(Today)
      candidates == start_candidates(U, R, D, uid)
  IN IF candidates = {} THEN <<S, 0>>
     ELSE LET start_date == Min(candidates)
              start_monday == start_date - Weekday(start_date)
          IN FinalizeLoop(R, D, uid, have_weeks(S, uid), this_monday,
                          start_monday, S, 0)

\* the percentage cut to an integer without rounding
pct_truncated(done_total, planned_total) ==
  IF planned_total > 0 THEN (100 * done_total) \div planned_total ELSE 0

\* int(round(100 * done / planned)): Python rounds a half to the even integer
pct_of(done_total, planned_total) ==
  IF planned_total > 0
  THEN LET q == (100 * done_total) \div planned_total
           r == (100 * done_total) % planned_total
       IN IF 2 * r < planned_total THEN q
          ELSE IF 2 * r > planned_total THEN q + 1
          ELSE IF q % 2 = 0 THEN q ELSE q + 1
  ELSE 0

\* order_by(week_start.asc()) over the rows at the indices idx of S
RECURSIVE OrderByWeekStart(_, _)
OrderByWeekStart(S, idx) ==
  IF idx = {} THEN <<>>
  ELSE LET first == CHOOSE i \in idx :
                      \A j \in idx : \/ S[i].week_start < S[j].week_start
                                     \/ S[i].week_start = S[j].week_start /\ i <= j
       IN <<S[first]>> \o OrderByWeekStart(S, idx \ {first})

\* get_week_summaries: range (local dates of both ends), done, planned, pct
get_week_summaries(S, uid) ==
  LET rows == OrderByWeekStart(S, {i \in 1..Len(S) : S[i].owner = uid})
  IN [i \in 1..Len(rows) |->
        [range |-> <<DateOf(FromUtc(rows[i].week_start)),
                     DateOf(FromUtc(rows[i].week_end))>>,
         done |-> rows[i].done_total,
         planned |-> rows[i].planned_total,
         pct |-> pct_of(rows[i].done_total, rows[i].planned_total)]]

\* done_map.get(d, 0) with the UTC date of the event taken for its local date
daily_done_utc_date(D, uid, d) ==
  Cardinality({k \in 1..Len(D) :
     /\ D[k].owner = uid
     /\ D[k].at >= ToUtc((Today - (WeekDays - 1)) * DayMin)
     /\ DateOf(D[k].at) = d})

\* done_map.get(d, 0) of get_daily_7d_ratio: the events since start_utc whose
\* local date is d
daily_done(D, uid, d) ==
  Cardinality({k \in 1..Len(D) :
     /\ D[k].owner = uid
     /\ D[k].at >= ToUtc((Today - (WeekDays - 1)) * DayMin)
     /\ DateOf(FromUtc(D[k].at)) = d})

\* get_daily_7d_ratio: today first, then the six days before
get_daily_7d_ratio(R, D, uid) ==
  [i \in 1..WeekDays |->
     [date |-> Today - (i - 1),
      done |-> daily_done(D, uid, Today - (i - 1)),
      planned |-> _planned_for_day(R, uid, Today - (i - 1))]]

(* ------------------------------ state -------------------------------- *)
Rids == 1..MaxRules

\* per rule id: owner (0 before the row is created), dispatches of its once job,
\* once job delivered, a delivery failed, row deleted by /delete, dispatched
\* after that /delete
NoHist == [owner |-> 0, n |-> 0, delivered |-> FALSE, failed |-> FALSE,
           deleted |-> FALSE, late |-> FALSE]

Init ==
  /\ now = Min(Grid)
  /\ utcOffset \in ZoneOffsets
  /\ phase = "starting"
  /\ restoreRuns = 0
  /\ users = [o \in Owners |-> None]
  /\ rules = EmptyFn
  /\ nextId = 1
  /\ jobs = EmptyFn
  /\ inflight = {}
  /\ done = <<>>
  /\ summaries = <<>>
  /\ hist = [r \in Rids |-> NoHist]
  /\ reply = <<>>

\* the scheduler wakes for a due job before any handler of the same minute runs
NoneDue == \A id \in DOMAIN jobs : jobs[id].next > now
\* requests arrive at the grid instants
Ready == phase = "running" /\ NoneDue /\ now \in Grid

(* --------------------------- bot.py handlers -------------------------- *)
\* /start
start_command(tg) ==
  /\ Ready
  /\ users' = get_or_create_user(users, tg)
  /\ UNCHANGED <<now, utcOffset, phase, restoreRuns, rules, nextId, jobs,
                 inflight, done, summaries, hist, reply>>

\* the handler answered with an error before touching anything
Rejected ==
  UNCHANGED <<users, rules, nextId, jobs, hist>>

\* the rows and jobs after create_reminder + schedule_* + the job_id update
Created(rid, tg, R1, sch) ==
  /\ users' = get_or_create_user(users, tg)
  /\ nextId' = nextId + 1
  /\ jobs' = sch[1]
  /\ rules' = IF sch[2] # NoJob THEN set_job_id(R1, rid, sch[2]) ELSE R1
  /\ hist' = [hist EXCEPT ![rid].owner = tg]

\* the time check of /add with < in place of <=
add_accepts_late(t) == validate_time_format(t) /\ ~(Today * DayMin + t < now)

\* the checks of /add before any row is written
add_accepts(t) == validate_time_format(t) /\ ~(Today * DayMin + t <= now)

\* /add HH:MM text
add_reminder(tg, t, text) ==
  /\ Ready
  /\ IF ~add_accepts(t)
     THEN Rejected
     ELSE /\ nextId <= MaxRules
          /\ Created(nextId, tg,
                     create_reminder(rules, nextId, tg, "once", t, text, <<>>),
                     schedule_once_reminder(jobs, nextId, tg, t, text))
  /\ UNCHANGED <<now, utcOffset, phase, restoreRuns, inflight, done, summaries, reply>>

\* /everyday HH:MM text
everyday_reminder(tg, t, text) ==
  /\ Ready
  /\ IF ~validate_time_format(t)
     THEN Rejected
     ELSE /\ nextId <= MaxRules
          /\ Created(nextId, tg,
                     create_reminder(rules, nextId, tg, "everyday", t, text, <<>>),
                     schedule_everyday_reminder(jobs, nextId, tg, t, text))
  /\ UNCHANGED <<now, utcOffset, phase, restoreRuns, inflight, done, summaries, reply>>

\* /days d1,d2 HH:MM text
days_reminder(tg, items, t, text) ==
  /\ Ready
  /\ IF ~parse_days(items)[1] \/ ~validate_time_format(t)
     THEN Rejected
     ELSE /\ nextId <= MaxRules
          /\ LET days_str_norm == days_list_to_str(parse_days(items)[2])
             IN Created(nextId, tg,
                   create_reminder(rules, nextId, tg, "days", t, text, days_str_norm),
                   schedule_days_reminder(jobs, nextId, tg, t, days_str_norm, text))
  /\ UNCHANGED <<now, utcOffset, phase, restoreRuns, inflight, done, summaries, reply>>

\* /delete without its remove_job call
delete_jobs_keep(J, r) == J

\* the job store after /delete found the row r
delete_jobs(J, r) == IF r.job_id # NoJob THEN remove_job(J, r.job_id) ELSE J

\* /delete ID
delete_reminder_command(tg, rid) ==
  /\ Ready
  /\ users' = get_or_create_user(users, tg)
  /\ IF ~get_reminder_by_id(rules, rid, tg)
     THEN UNCHANGED <<rules, jobs, hist>>
     ELSE /\ jobs' = delete_jobs(jobs, rules[rid])
          /\ rules' = delete_reminder(rules, rid, tg)
          /\ hist' = [hist EXCEPT ![rid].deleted = TRUE]
  /\ UNCHANGED <<now, utcOffset, phase, restoreRuns, nextId, inflight, done,
                 summaries, reply>>

\* a /rename that registers the job again with the text the row had before
rename_schedule_stale(J, rid, tg, r, new_text) ==
  IF r.kind = "once" THEN schedule_once_reminder(J, rid, tg, r.time, r.text)
  ELSE IF r.kind = "everyday"
    THEN schedule_everyday_reminder(J, rid, tg, r.time, r.text)
  ELSE schedule_days_reminder(J, rid, tg, r.time, r.days, r.text)

\* the schedule_* call of /rename for the row r: <<jobs, job id>>
rename_schedule(J, rid, tg, r, new_text) ==
  IF r.kind = "once" THEN schedule_once_reminder(J, rid, tg, r.time, new_text)
  ELSE IF r.kind = "everyday"
    THEN schedule_everyday_reminder(J, rid, tg, r.time, new_text)
  ELSE schedule_days_reminder(J, rid, tg, r.time, r.days, new_text)

\* /rename ID new_text
rename_reminder_command(tg, rid, new_text) ==
  /\ Ready
  /\ users' = get_or_create_user(users, tg)
  /\ IF ~get_reminder_by_id(rules, rid, tg)
     THEN UNCHANGED <<rules, jobs>>
     ELSE LET r == rules[rid]
              R1 == rename_reminder(rules, rid, tg, new_text)
              sch == rename_schedule(delete_jobs(jobs, r), rid, tg, r, new_text)
          IN /\ jobs' = sch[1]
             /\ rules' = IF sch[2] # NoJob THEN set_job_id(R1, rid, sch[2]) ELSE R1
  /\ UNCHANGED <<now, utcOffset, phase, restoreRuns, nextId, inflight, done,
                 summaries, hist, reply>>

\* the lookup of /done and of the inline button: active rows, then any row
done_lookup(R, rid, uid) ==
  get_reminder_by_id(R, rid, uid) \/ get_any_reminder_by_id(R, rid, uid)

\* the lookup and the insert shared by /done ID and the inline button
Acknowledge(tg, rid) ==
  /\ Ready
  /\ users' = get_or_create_user(users, tg)
  /\ IF ~done_lookup(rules, rid, tg)
     THEN UNCHANGED done
     ELSE /\ Len(done) < MaxDone
          /\ done' = mark_workout_completed(done, rid, tg, rules[rid].text)
  /\ UNCHANGED <<now, utcOffset, phase, restoreRuns, rules, nextId, jobs,
                 inflight, summaries, hist, reply>>

\* /done ID
mark_done_command(tg, rid) == Acknowledge(tg, rid)

\* inline button "done_<id>"
handle_done_callback(tg, rid) == Acknowledge(tg, rid)

\* /weeks: finalize_past_weeks, then the list
weeks_command(tg) ==
  /\ Ready
  /\ users' = get_or_create_user(users, tg)
  /\ LET fin == finalize_past_weeks(users', rules, done, summaries, tg)
     IN /\ Len(fin[1]) <= MaxRows
        /\ summaries' = fin[1]
        /\ reply' = get_week_summaries(fin[1], tg)
  /\ UNCHANGED <<now, utcOffset, phase, restoreRuns, rules, nextId, jobs,
                 inflight, done, hist>>

\* /stats: the per-day list of the last 7 days
stats_command(tg) ==
  /\ Ready
  /\ users' = get_or_create_user(users, tg)
  /\ reply' = get_daily_7d_ratio(rules, done, tg)
  /\ UNCHANGED <<now, utcOffset, phase, restoreRuns, rules, nextId, jobs,
                 inflight, done, summaries, hist>>

(* ------------------------- scheduler.py steps ------------------------- *)
\* a scheduler that runs a due job only when no send is pending
DispatchSerial(id) ==
  /\ phase = "running"
  /\ inflight = {}
  /\ id \in DOMAIN jobs
  /\ jobs[id].next <= now
  /\ LET j == jobs[id]
     IN /\ inflight' = inflight \cup
               {[rid |-> j.rid, tg |-> j.tg, text |-> j.text, kind |-> j.kind,
                 at |-> now]}
        /\ jobs' = IF j.kind = "once" THEN Drop(jobs, id)
                   ELSE [jobs EXCEPT ![id].next = NextCron(j.time, j.dows)]
        /\ hist' = [hist EXCEPT
                      ![j.rid].n = IF j.kind = "once" THEN @ + 1 ELSE @,
                      ![j.rid].late = @ \/ hist[j.rid].deleted]
  /\ UNCHANGED <<now, utcOffset, phase, restoreRuns, users, rules, nextId, done,
                 summaries, reply>>

\* the scheduler runs a due job: the send_reminder coroutine is submitted and
\* runs up to its await; a date job is dropped, a cron job gets its next time
Dispatch(id) ==
  /\ phase = "running"
  /\ id \in DOMAIN jobs
  /\ jobs[id].next <= now
  /\ LET j == jobs[id]
     IN /\ inflight' = inflight \cup
               {[rid |-> j.rid, tg |-> j.tg, text |-> j.text, kind |-> j.kind,
                 at |-> now]}
        /\ jobs' = IF j.kind = "once" THEN Drop(jobs, id)
                   ELSE [jobs EXCEPT ![id].next = NextCron(j.time, j.dows)]
        /\ hist' = [hist EXCEPT
                      ![j.rid].n = IF j.kind = "once" THEN @ + 1 ELSE @,
                      ![j.rid].late = @ \/ hist[j.rid].deleted]
  /\ UNCHANGED <<now, utcOffset, phase, restoreRuns, users, rules, nextId, done,
                 summaries, reply>>

\* a send_reminder that deletes the row after the send whatever the kind
DeliverOkDeletesAny(f) ==
  /\ phase = "running"
  /\ f \in inflight
  /\ inflight' = inflight \ {f}
  /\ rules' = delete_reminder(rules, f.rid, 0)
  /\ hist' = [hist EXCEPT ![f.rid].delivered = @ \/ f.kind = "once"]
  /\ UNCHANGED <<now, utcOffset, phase, restoreRuns, users, nextId, jobs, done,
                 summaries, reply>>

\* bot.send_message returned: send_reminder runs to its end
DeliverOk(f) ==
  /\ phase = "running"
  /\ f \in inflight
  /\ inflight' = inflight \ {f}
  /\ rules' = IF f.kind = "once" THEN delete_reminder(rules, f.rid, 0) ELSE rules
  /\ hist' = [hist EXCEPT ![f.rid].delivered = @ \/ f.kind = "once"]
  /\ UNCHANGED <<now, utcOffset, phase, restoreRuns, users, nextId, jobs, done,
                 summaries, reply>>

\* a failed send that also takes the job of the rule out of the registry
DeliverFailDropsJob(f) ==
  /\ phase = "running"
  /\ f \in inflight
  /\ inflight' = inflight \ {f}
  /\ jobs' = [id \in {x \in DOMAIN jobs : jobs[x].rid # f.rid} |-> jobs[id]]
  /\ hist' = [hist EXCEPT ![f.rid].failed = TRUE]
  /\ UNCHANGED <<now, utcOffset, phase, restoreRuns, users, rules, nextId, done,
                 summaries, reply>>

\* bot.send_message raised: the except branch logs and returns
DeliverFail(f) ==
  /\ phase = "running"
  /\ f \in inflight
  /\ inflight' = inflight \ {f}
  /\ hist' = [hist EXCEPT ![f.rid].failed = TRUE]
  /\ UNCHANGED <<now, utcOffset, phase, restoreRuns, users, rules, nextId, jobs,
                 done, summaries, reply>>

\* the next instant at which something is observed: the next grid instant, or
\* the earliest fire time of a registered job when that comes first
NextWake ==
  Min({t \in Grid \cup {jobs[id].next : id \in DOMAIN jobs} : t > now})

\* the clock moves on; a running scheduler never sleeps past a due job, and a
\* pending send_message call ends within the local day it started in
Advance ==
  /\ phase \in {"running", "down"}
  /\ NoneDue
  /\ \E t \in Grid \cup {jobs[id].next : id \in DOMAIN jobs} : t > now
  /\ NextWake <= Horizon
  /\ DateOf(NextWake) # Today => inflight = {}
  /\ now' = NextWake
  /\ UNCHANGED <<utcOffset, phase, restoreRuns, users, rules, nextId, jobs,
                 inflight, done, summaries, hist, reply>>

\* the process dies: the memory job store and the pending coroutines are lost
Crash ==
  /\ phase = "running"
  /\ now \in Grid
  /\ phase' = "down"
  /\ jobs' = EmptyFn
  /\ inflight' = {}
  /\ UNCHANGED <<now, utcOffset, restoreRuns, users, rules, nextId, done,
                 summaries, hist, reply>>

\* main(): init_db, set_bot_instance, start_scheduler
Start ==
  /\ phase = "down"
  /\ phase' = "starting"
  /\ restoreRuns' = 0
  /\ UNCHANGED <<now, utcOffset, users, rules, nextId, jobs, inflight, done,
                 summaries, hist, reply>>

\* the for loop of restore_reminders_from_db over the rows ids: <<jobs, rules>>
RECURSIVE RestoreLoop(_, _, _)
RestoreLoop(ids, J, R) ==
  IF ids = {} THEN <<J, R>>
  ELSE LET rid == Min(ids)
           r == R[rid]
           sch == IF r.kind = "once" THEN <<J, NoJob>>
                  ELSE IF r.kind = "everyday"
                    THEN schedule_everyday_reminder(J, rid, r.owner, r.time, r.text)
                  ELSE schedule_days_reminder(J, rid, r.owner, r.time, r.days, r.text)
       IN RestoreLoop(ids \ {rid}, sch[1],
                      IF sch[2] # NoJob THEN set_job_id(R, rid, sch[2]) ELSE R)

restore_reminders_from_db ==
  /\ phase = "starting"
  /\ restoreRuns < MaxRestoreRuns
  /\ LET res == RestoreLoop(get_active_reminders(rules), jobs, rules)
     IN /\ jobs' = res[1]
        /\ rules' = res[2]
  /\ restoreRuns' = restoreRuns + 1
  /\ UNCHANGED <<now, utcOffset, phase, users, nextId, inflight, done,
                 summaries, hist, reply>>

\* main(): dp.start_polling, the event loop starts serving
start_polling ==
  /\ phase = "starting"
  /\ restoreRuns >= 1
  /\ phase' = "running"
  /\ restoreRuns' = 0
  /\ UNCHANGED <<now, utcOffset, users, rules, nextId, jobs,
                 inflight, done, summaries, hist, reply>>

CreateTexts == {"Run"}

\* rule creation by the owners in C
CreateRequests(C) ==
  \/ \E tg \in C, t \in TimesOfDay \cup BadTimes, x \in CreateTexts :
        add_reminder(tg, t, x)
  \/ \E tg \in C, t \in TimesOfDay \cup BadTimes, x \in CreateTexts :
        everyday_reminder(tg, t, x)
  \/ \E tg \in C, d \in DayInputs, t \in TimesOfDay \cup BadTimes,
        x \in CreateTexts : days_reminder(tg, d, t, x)

EditRequests(O) ==
  \/ \E tg \in O, rid \in Rids : delete_reminder_command(tg, rid)
  \/ \E tg \in O, rid \in Rids, x \in Texts :
        rename_reminder_command(tg, rid, x)

DoneRequests(O) ==
  \/ \E tg \in O, rid \in Rids : mark_done_command(tg, rid)
  \/ \E tg \in O, rid \in Rids : handle_done_callback(tg, rid)

SchedulerSteps ==
  \/ \E id \in DOMAIN jobs : Dispatch(id)
  \/ \E f \in inflight : DeliverOk(f)
  \/ \E f \in inflight : DeliverFail(f)
  \/ Advance

Lifecycle ==
  \/ Crash
  \/ Start
  \/ restore_reminders_from_db
  \/ start_polling

\* the scheduler with the rule requests of one owner
Next ==
  \/ CreateRequests({1})
  \/ EditRequests({1})
  \/ SchedulerSteps
  \/ Lifecycle

Spec == Init /\ [][Next]_vars

\* one-shot rules of one owner and their acknowledgments
NextDone ==
  \/ \E t \in TimesOfDay \cup BadTimes, x \in CreateTexts : add_reminder(1, t, x)
  \/ DoneRequests({1})
  \/ SchedulerSteps
  \/ restore_reminders_from_db
  \/ start_polling

SpecDone == Init /\ [][NextDone]_vars

WeeksDayInputs == {<<"pn", "sr">>, <<>>}

\* recurring rules of one owner, acknowledgments and the weekly summaries
NextWeeks ==
  \/ start_command(1)
  \/ \E t \in TimesOfDay, x \in CreateTexts : everyday_reminder(1, t, x)
  \/ \E d \in WeeksDayInputs, t \in TimesOfDay, x \in CreateTexts :
        days_reminder(1, d, t, x)
  \/ \E rid \in Rids : delete_reminder_command(1, rid)
  \/ DoneRequests({1})
  \/ weeks_command(1)
  \/ \E id \in DOMAIN jobs : Dispatch(id)
  \/ \E f \in inflight : DeliverOk(f)
  \/ Advance
  \/ restore_reminders_from_db
  \/ start_polling

SpecWeeks == Init /\ [][NextWeeks]_vars

(* ------------------------------ claims -------------------------------- *)
JobsOf(J, rid) == {id \in DOMAIN J : J[id].rid = rid}
OnceTargetToday(time) == Today * DayMin + time

\* C1: once restore_reminders_from_db has run at process start, every active
\* rule has a job in the registry, except once rules whose time of day has
\* already passed today.
C1_RestoreRegistersAllSchedulable ==
  (phase = "starting" /\ restoreRuns >= 1) =>
    \A rid \in get_active_reminders(rules) :
      \/ rules[rid].kind = "once" /\ OnceTargetToday(rules[rid].time) <= now
      \/ JobsOf(jobs, rid) # {}

\* C2: a second run of restore_reminders_from_db right after the first leaves
\* the registry (ids, triggers, payloads) and the rule rows as the first run
\* left them, with exactly one job per restored recurring rule.
C2_RestoreIdempotent ==
  [][(phase = "starting" /\ restoreRuns >= 1 /\ restoreRuns' = restoreRuns + 1) =>
       /\ jobs' = jobs
       /\ rules' = rules
       /\ \A rid \in get_active_reminders(rules') :
            rules'[rid].kind # "once" => Cardinality(JobsOf(jobs', rid)) = 1]_vars

C2_Witness ==
  /\ phase = "starting"
  /\ restoreRuns >= 2
  /\ \E rid \in DOMAIN rules : Cardinality(JobsOf(jobs, rid)) = 1

\* C3: the owner's acknowledgment of a once rule that has fired and been
\* delivered finds the rule, so that it succeeds and appends an event.
C3_AckOfDeliveredOnceSucceeds ==
  \A rid \in Rids :
    hist[rid].delivered => done_lookup(rules, rid, hist[rid].owner)

\* C4: finalize_past_weeks called twice in succession adds no row in the
\* second call, and the second call returns 0.
C4_FinalizeIdempotent ==
  \A tg \in Owners :
    LET U == get_or_create_user(users, tg)
        first == finalize_past_weeks(U, rules, done, summaries, tg)
        second == finalize_past_weeks(U, rules, done, first[1], tg)
    IN second[2] = 0 /\ second[1] = first[1]

\* C5: weekly_summaries holds at most one row per (owner, week start).
C5_OneRowPerWeek ==
  \A i, j \in 1..Len(summaries) :
    (summaries[i].owner = summaries[j].owner
       /\ summaries[i].week_start = summaries[j].week_start) => i = j

\* C6: every step that creates a once rule creates it for a time of day that
\* is strictly ahead of now and registers its job for today at that time; /add
\* accepts no time of day that is at or before now.
C6_OnceCreation ==
  [][/\ \A t \in TimesOfDay \cup BadTimes :
          OnceTargetToday(t) <= now => ~add_accepts(t)
     /\ \A rid \in Rids :
          (rid \notin DOMAIN rules /\ rid \in DOMAIN rules'
             /\ rules'[rid].kind = "once") =>
            LET r == rules'[rid]
                id == <<"once", rid, r.owner>>
            IN /\ OnceTargetToday(r.time) > now
               /\ id \in DOMAIN jobs'
               /\ jobs'[id].next = OnceTargetToday(r.time)
               /\ r.job_id = id]_vars

C6_Witness ==
  \E rid \in DOMAIN rules :
    /\ rules[rid].kind = "once"
    /\ \E id \in JobsOf(jobs, rid) :
         jobs[id].next = OnceTargetToday(rules[rid].time) /\ jobs[id].next > now

\* C7: a once rule is dispatched at most once, and once its job has fired no
\* job for the rule is in the registry again.
C7_OnceDispatchedAtMostOnce ==
  \A rid \in Rids :
    hist[rid].n >= 1 => (hist[rid].n = 1 /\ JobsOf(jobs, rid) = {})

C9_RecurringSurvivesFailure ==
  [][/\ \A f \in inflight' \ inflight :
          f.kind # "once" =>
            \E id \in JobsOf(jobs', f.rid) : jobs'[id].next > now
     /\ \A f \in inflight \ inflight' :
          (f.kind # "once" /\ phase' = "running") =>
            (rules' = rules /\ jobs' = jobs /\ inflight' = inflight \ {f})]_vars

C9_Witness ==
  \E rid \in DOMAIN rules :
    /\ hist[rid].failed
    /\ rules[rid].kind # "once" /\ rules[rid].active
    /\ \E id \in JobsOf(jobs, rid) : jobs[id].next > now

\* C10: after /delete of an active rule its row is gone, the registry holds no
\* job for it and no dispatch of it has started since.
C10_DeletedRuleSilent ==
  \A rid \in Rids :
    hist[rid].deleted =>
      (rid \notin DOMAIN rules /\ JobsOf(jobs, rid) = {} /\ ~hist[rid].late)

C10_Witness ==
  \E rid \in Rids : hist[rid].deleted /\ hist[rid].owner # 0 /\ now > Min(Grid)

(* --------------------- requests of a second user ---------------------- *)
\* user 1 creates rules; user 2 sends /delete, /rename, /done and the button
\* for every id, none of which is a rule of user 2
NextOwners ==
  \/ CreateRequests({1})
  \/ EditRequests({2})
  \/ DoneRequests({2})
  \/ SchedulerSteps
  \/ restore_reminders_from_db
  \/ start_polling

SpecOwners == Init /\ [][NextOwners]_vars

\* C11: /delete, /rename and done requests naming an id that does not exist or
\* that is a rule of another user change nothing: no completion row is written,
\* no row is deleted or renamed, no job is removed or re-registered.
C11_NotFoundIsNoOp ==
  /\ done = <<>>
  /\ \A rid \in Rids :
       /\ ~hist[rid].deleted
       /\ rid \in DOMAIN rules =>
            /\ rules[rid].owner = 1
            /\ rules[rid].text \in CreateTexts
            /\ rules[rid].kind # "once" =>
                 \E id \in JobsOf(jobs, rid) :
                   jobs[id].text = rules[rid].text /\ rules[rid].job_id = id
            /\ (rules[rid].kind = "once" /\ hist[rid].n = 0) =>
                 JobsOf(jobs, rid) # {}
       /\ (rid < nextId /\ rid \notin DOMAIN rules) => hist[rid].delivered

C11_Witness ==
  /\ users[2] # None
  /\ \E rid \in DOMAIN rules :
       rules[rid].owner = 1 /\ rules[rid].created < users[2] /\ JobsOf(jobs, rid) # {}
  /\ nextId <= MaxRules

(* ------------------------- rejected creations ------------------------- *)
KnownTokens == {RuDays[i] : i \in 1..Len(RuDays)} \cup {EnDays[i] : i \in 1..Len(EnDays)}
MalformedDays(d) == d = <<>> \/ \E i \in 1..Len(d) : d[i] \notin KnownTokens

\* C12: a creation request with a malformed time, no weekday, an unknown
\* weekday token or a one-shot time that has passed is refused by the checks
\* that precede every write: each row that appears is well formed, the id
\* counter moves only with a new row, and a new job belongs to a stored row.
C12_RejectedBeforePersistence ==
  [][/\ \A t \in BadTimes : ~validate_time_format(t) /\ ~add_accepts(t)
     /\ \A d \in DayInputs : MalformedDays(d) => ~parse_days(d)[1]
     /\ \A rid \in Rids :
          (rid \notin DOMAIN rules /\ rid \in DOMAIN rules') =>
            LET r == rules'[rid]
            IN /\ r.time >= 0 /\ r.time < 24 * 60
               /\ r.kind = "days" =>
                    /\ r.days # <<>>
                    /\ \A i \in 1..Len(r.days) : r.days[i] \in KnownTokens
               /\ r.kind = "once" => OnceTargetToday(r.time) > now
     /\ nextId' # nextId => nextId \in (DOMAIN rules') \ (DOMAIN rules)
     /\ \A id \in (DOMAIN jobs') \ (DOMAIN jobs) :
          /\ jobs'[id].rid \in DOMAIN rules'
          /\ jobs'[id].time >= 0 /\ jobs'[id].time < 24 * 60]_vars

\* requests of all four rejected kinds are served in a state with a stored rule
C12_Witness ==
  /\ Ready
  /\ nextId <= MaxRules
  /\ rules # EmptyFn
  /\ \E t \in TimesOfDay : OnceTargetToday(t) <= now
  /\ \E d \in DayInputs : d # <<>> /\ MalformedDays(d)
  /\ <<>> \in DayInputs /\ BadTimes # {}

(* -------------------------- weekly summaries -------------------------- *)
\* C13: a stored weekly summary row is never changed or removed by a later
\* step; the table only grows at its end.
C13_SummaryImmutable ==
  [][/\ Len(summaries') >= Len(summaries)
     /\ \A i \in 1..Len(summaries) :
          /\ summaries'[i].done_total = summaries[i].done_total
          /\ summaries'[i].planned_total = summaries[i].planned_total
          /\ summaries'[i] = summaries[i]]_vars

\* a row exists, an acknowledgment was stored after the end of its week, and
\* the rule set is no longer the one the row was computed from
C13_Witness ==
  \E i \in 1..Len(summaries) :
    /\ \E k \in 1..Len(done) :
         done[k].owner = summaries[i].owner /\ done[k].at > summaries[i].week_end
    /\ summaries[i].planned_total # week_planned_total(rules, summaries[i].owner, 0)

\* C14: no stored weekly summary row has planned_total = 0 and done_total = 0.
C14_NoEmptyWeekStored ==
  \A i \in 1..Len(summaries) :
    summaries[i].planned_total > 0 \/ summaries[i].done_total > 0

\* the user's activity starts in week 0, and the table has rows of later weeks
\* only: the walk passed over week 0 and stored nothing for it
C14_Witness ==
  /\ users[1] # None
  /\ DateOf(FromUtc(users[1])) < WeekDays
  /\ Len(summaries) >= 1
  /\ \A i \in 1..Len(summaries) :
       summaries[i].owner = 1 /\ summaries[i].week_start > week_start_utc(0)

(* ------------------- the views over a stored database ----------------- *)
\* rows and events found in the database when the process starts
ViewEventTimes == {1135, 7920, 8300}
ViewKinds == {<<"everyday", <<>>, TRUE>>, <<"everyday", <<>>, FALSE>>,
              <<"days", <<"pn", "sr">>, TRUE>>, <<"once", <<>>, TRUE>>}
ViewRows ==
  {[owner |-> o, kind |-> k[1], time |-> Min(TimesOfDay), days |-> k[2],
    text |-> "Run", active |-> k[3], created |-> DayMin \div 2, job_id |-> NoJob] :
     o \in Owners, k \in ViewKinds}
ViewEventSet ==
  {[owner |-> o, rid |-> 1, at |-> t, text |-> "Run"] :
     o \in Owners, t \in ViewEventTimes}
ViewEvents ==
  {<<>>} \cup {<<e>> : e \in ViewEventSet}
         \cup {q \in ViewEventSet \X ViewEventSet : q[1].at <= q[2].at}

\* the process has started on such a database and has restored its jobs
InitViews ==
  /\ now = Min(Grid)
  /\ utcOffset \in ZoneOffsets
  /\ phase = "running"
  /\ restoreRuns = 0
  /\ users = [o \in Owners |-> DayMin \div 2]
  /\ nextId = MaxRules + 1
  /\ inflight = {}
  /\ summaries = <<>>
  /\ reply = <<>>
  /\ done \in ViewEvents
  /\ \E T \in [Rids -> ViewRows] :
       LET res == RestoreLoop(get_active_reminders(T), EmptyFn, T)
       IN /\ jobs = res[1]
          /\ rules = res[2]
          /\ hist = [r \in Rids |-> [NoHist EXCEPT !.owner = T[r].owner]]

NextViews ==
  \/ stats_command(1)
  \/ \E id \in DOMAIN jobs : Dispatch(id)
  \/ \E f \in inflight : DeliverOk(f)
  \/ Advance

SpecViews == InitViews /\ [][NextViews]_vars

\* the planned count as the specification words it
PlannedBySpec(o, d) ==
  Cardinality({rid \in DOMAIN rules :
     rules[rid].owner = o /\ rules[rid].active /\ rules[rid].kind = "everyday"})
  + Cardinality({rid \in DOMAIN rules :
     /\ rules[rid].owner = o /\ rules[rid].active /\ rules[rid].kind = "days"
     /\ Weekday(d) \in day_numbers(rules[rid].days)})

\* C15: for every owner and date the planned count is the number of the
\* owner's active daily rules plus the number of the owner's active weekday
\* rules whose set has the weekday of the date; one-shot rules, inactive rules
\* and rules of other owners add nothing, and an owner without rules gets 0.
C15_PlannedCount ==
  \A o \in Owners, d \in 0..MaxDay :
    /\ _planned_for_day(rules, o, d) = PlannedBySpec(o, d)
    /\ (\A rid \in DOMAIN rules : rules[rid].owner # o) =>
         _planned_for_day(rules, o, d) = 0

\* /stats has answered an owner who has an active weekday rule for today and
\* an inactive daily rule
C15_Witness ==
  /\ reply # <<>>
  /\ \E a, b \in DOMAIN rules :
       /\ rules[a].owner = 1 /\ rules[a].kind = "days" /\ rules[a].active
       /\ Weekday(Today) \in day_numbers(rules[a].days)
       /\ rules[b].owner = 1 /\ rules[b].kind = "everyday" /\ ~rules[b].active
  /\ _planned_for_day(rules, 1, Today) = 1

\* C16: the list /stats sends has 7 entries, today first and then the six days
\* before in turn; the done of an entry is the number of the owner's
\* completion events of that local day, its planned the planned count.
C16_DailyView ==
  [][reply' # reply =>
       /\ Len(reply') = 7
       /\ \A i \in 1..7 :
            /\ reply'[i].date = Today - (i - 1)
            /\ reply'[i].done =
                 Cardinality({k \in 1..Len(done) :
                    /\ done[k].owner = 1
                    /\ (done[k].at + utcOffset) \div DayMin = reply'[i].date})
            /\ reply'[i].planned = PlannedBySpec(1, reply'[i].date)]_vars

\* a list with a counted event, while an older event of the owner is outside it
C16_Witness ==
  /\ Len(reply) = 7
  /\ \E i \in 1..7 : reply[i].done >= 1 /\ reply[i].date # DateOf(done[1].at)
  /\ \E k \in 1..Len(done) :
       done[k].owner = 1 /\ DateOf(FromUtc(done[k].at)) < reply[7].date

(* --------------------- the list of weekly summaries ------------------- *)
\* weekly_summaries rows found in the database: <<done_total, planned_total>>
\* of weeks 0 and 1, in any insertion order
ViewTotals == {<<10, 14>>, <<1, 8>>, <<2, 3>>, <<3, 0>>, <<0, 7>>}
ViewSummaryRows ==
  {[owner |-> o, week_start |-> week_start_utc(c), week_end |-> week_end_utc(c),
    done_total |-> t[1], planned_total |-> t[2]] :
     o \in Owners, c \in {0, WeekDays}, t \in ViewTotals}
ViewSummaries ==
  {<<>>} \cup {<<r>> : r \in ViewSummaryRows}
         \cup (ViewSummaryRows \X ViewSummaryRows)

InitSummaries ==
  /\ now = Min(Grid)
  /\ utcOffset \in ZoneOffsets
  /\ phase = "running"
  /\ restoreRuns = 0
  /\ users = [o \in Owners |-> None]
  /\ rules = EmptyFn
  /\ nextId = 1
  /\ jobs = EmptyFn
  /\ inflight = {}
  /\ done = <<>>
  /\ summaries \in ViewSummaries
  /\ hist = [r \in Rids |-> NoHist]
  /\ reply = <<>>

NextSummaries ==
  \/ weeks_command(1)
  \/ Advance

SpecSummaries == InitSummaries /\ [][NextSummaries]_vars

RowsOf(o) == {i \in 1..Len(summaries) : summaries[i].owner = o}

\* C17: the list /weeks sends holds every stored row of the owner and no
\* other, by week start ascending, each with the integer nearest to
\* 100 * done_total / planned_total as pct when planned_total > 0 (a half goes
\* to a neighbouring integer) and pct = 0 otherwise; for 10 of 14 the pct is 71.
C17_WeekList ==
  [][(reply' # reply /\ summaries' = summaries) =>
       /\ Len(reply') = Cardinality(RowsOf(1))
       /\ \A i, j \in 1..Len(reply') : i < j => reply'[i].range[1] <= reply'[j].range[1]
       /\ \A i \in RowsOf(1) :
            Cardinality({j \in 1..Len(reply') :
               /\ reply'[j].range[1] = (summaries[i].week_start + utcOffset) \div DayMin
               /\ reply'[j].done = summaries[i].done_total
               /\ reply'[j].planned = summaries[i].planned_total})
            = Cardinality({k \in RowsOf(1) :
               /\ summaries[k].week_start = summaries[i].week_start
               /\ summaries[k].done_total = summaries[i].done_total
               /\ summaries[k].planned_total = summaries[i].planned_total})
       /\ \A j \in 1..Len(reply') :
            LET e == reply'[j]
                diff == 100 * e.done - e.pct * e.planned
            IN /\ e.planned > 0 => (2 * diff <= e.planned /\ 2 * diff >= 0 - e.planned)
               /\ e.planned = 0 => e.pct = 0
               /\ (e.done = 10 /\ e.planned = 14) => e.pct = 71]_vars

\* a list of two rows stored in descending order of week start, one of them
\* the week with 10 of 14
C17_Witness ==
  /\ Len(reply) = 2
  /\ Len(summaries) = 2
  /\ summaries[1].week_start > summaries[2].week_start
  /\ \E j \in 1..2 : reply[j].done = 10 /\ reply[j].planned = 14

(* --------------------------- weekday rules ---------------------------- *)
\* the weekday numbers (Monday = 0) of the stored days of a weekday rule
DaySetOf(r) == {i - 1 : i \in {k \in 1..Len(RuDays) :
                                 \E m \in 1..Len(r.days) : r.days[m] = RuDays[k]}}

\* the local instants of the rule's days and time strictly between a and b
MatchingBetween(r, a, b) ==
  {t \in {d * DayMin + r.time : d \in (a \div DayMin)..(b \div DayMin)} :
     t > a /\ t < b /\ ((t \div DayMin) % 7) \in DaySetOf(r)}

\* C18: the job of a weekday rule is dispatched only on a weekday of its set
\* and at the rule's time, and each dispatch re-arms it for the next instant
\* of the set, later than now, with no instant of the set passed over: once a
\* matching weekday, twice a calendar week for a set of two days, and for
\* the Friday of the same week after the Monday of {Mon, Fri}.
C18_WeekdayFiring ==
  [][\A f \in inflight' \ inflight :
       (f.kind = "days" /\ f.rid \in DOMAIN rules) =>
         LET r == rules[f.rid]
             id == <<"days", f.rid, r.owner>>
         IN /\ (Today % 7) \in DaySetOf(r)
            /\ now % DayMin = r.time
            /\ id \in DOMAIN jobs'
            /\ jobs'[id].next > now
            /\ jobs'[id].next % DayMin = r.time
            /\ ((jobs'[id].next \div DayMin) % 7) \in DaySetOf(r)
            /\ MatchingBetween(r, now, jobs'[id].next) = {}
            /\ Cardinality(DaySetOf(r)) = 2 =>
                 Cardinality(MatchingBetween(r, now, now + 7 * DayMin + 1)) = 2
            /\ (DaySetOf(r) = {0, 4} /\ Today % 7 = 0) =>
                 jobs'[id].next = (Today + 4) * DayMin + r.time]_vars

\* the job of a {Mon, Fri} rule was dispatched on a Monday and is armed for the
\* Friday of that week
C18_Witness ==
  \E f \in inflight :
    /\ f.kind = "days" /\ Weekday(DateOf(f.at)) = 0
    /\ \E id \in JobsOf(jobs, f.rid) :
         jobs[id].dows = {0, 4} /\ jobs[id].next = (DateOf(f.at) + 4) * DayMin + jobs[id].time

(* ------------------------ scheduling failures ------------------------- *)
\* /add whose schedule_once_reminder call returns None after the row was
\* written: add_job raised and the except branch swallowed it
add_reminder_unscheduled(tg, t, text) ==
  /\ Ready
  /\ add_accepts(t)
  /\ nextId <= MaxRules
  /\ Created(nextId, tg, create_reminder(rules, nextId, tg, "once", t, text, <<>>),
             <<jobs, NoJob>>)
  /\ UNCHANGED <<now, utcOffset, phase, restoreRuns, inflight, done, summaries,
                 reply>>

\* /everyday whose schedule_everyday_reminder call returns None in the same way
everyday_reminder_unscheduled(tg, t, text) ==
  /\ Ready
  /\ validate_time_format(t)
  /\ nextId <= MaxRules
  /\ Created(nextId, tg,
             create_reminder(rules, nextId, tg, "everyday", t, text, <<>>),
             <<jobs, NoJob>>)
  /\ UNCHANGED <<now, utcOffset, phase, restoreRuns, inflight, done, summaries,
                 reply>>

NextUnscheduled ==
  \/ \E t \in TimesOfDay, x \in CreateTexts : add_reminder_unscheduled(1, t, x)
  \/ \E t \in TimesOfDay, x \in CreateTexts : everyday_reminder_unscheduled(1, t, x)
  \/ SchedulerSteps
  \/ Lifecycle

SpecUnscheduled == Init /\ [][NextUnscheduled]_vars

\* C19: a rule whose scheduling failed is stored active with no job id and no
\* job, and the next run of restore_reminders_from_db registers a job for it
\* and writes the job id to its row (a one-shot rule whose time of day has
\* passed by then is left aside).
C19_UnscheduledRuleRecovered ==
  [][/\ \A rid \in Rids :
          (rid \notin DOMAIN rules /\ rid \in DOMAIN rules') =>
            /\ rules'[rid].active
            /\ rules'[rid].job_id = NoJob
            /\ JobsOf(jobs', rid) = {}
     /\ (phase = "starting" /\ restoreRuns' = restoreRuns + 1) =>
          \A rid \in get_active_reminders(rules) :
            (/\ rules[rid].job_id = NoJob
             /\ JobsOf(jobs, rid) = {}
             /\ rules[rid].kind = "once" => OnceTargetToday(rules[rid].time) > now)
            => \E id \in JobsOf(jobs', rid) : rules'[rid].job_id = id]_vars

(* ------------------------- the week of a row -------------------------- *)
\* the local Monday a stored row was computed for
WeekOfRow(row) == (row.week_start + LmtOffset) \div DayMin

\* C20: the done_total of every stored row is the number of the owner's
\* completion events whose local time lies in the row's week, from Monday
\* 00:00 to the end of Sunday.
C20_DoneTotalIsWeekCount ==
  \A i \in 1..Len(summaries) :
    summaries[i].done_total =
      Cardinality({k \in 1..Len(done) :
         /\ done[k].owner = summaries[i].owner
         /\ done[k].at + utcOffset >= WeekOfRow(summaries[i]) * DayMin
         /\ done[k].at + utcOffset < (WeekOfRow(summaries[i]) + 7) * DayMin})

(* ---------------------- failed one-shot delivery ---------------------- *)
\* C21: once the send of a one-shot job has failed, the registry holds no job
\* for the rule and the rule is not among the active rules.
C21_FailedOnceDeactivated ==
  \A rid \in Rids :
    (hist[rid].failed /\ hist[rid].n >= 1) =>
      (JobsOf(jobs, rid) = {} /\ rid \notin get_active_reminders(rules))

(* ------------------------- coverage of the walk ----------------------- *)
\* the owner's completion events whose local date lies in the week of cur
local_week_done(D, uid, cur) ==
  Cardinality({i \in 1..Len(D) :
     D[i].owner = uid /\ DateOf(FromUtc(D[i].at)) \in cur..(cur + WeekDays - 1)})

\* the local Mondays from the week of the first activity to last week
ElapsedWeeks(U, R, D, uid) ==
  LET c == start_candidates(U, R, D, uid)
      this_monday == Today - Weekday(Today)
  IN IF c = {} THEN {}
     ELSE {cur \in (Min(c) - Weekday(Min(c)))..(this_monday - WeekDays) :
             Weekday(cur) = 0}

\* C22: after finalize_past_weeks every elapsed week since the week of the
\* owner's first activity that has something planned or an event done has a
\* row; for an owner without any activity date nothing is added and 0 returned.
C22_FinalizeCoversActiveWeeks ==
  \A tg \in Owners :
    \A U \in {users, get_or_create_user(users, tg)} :
      LET fin == finalize_past_weeks(U, rules, done, summaries, tg)
      IN /\ start_candidates(U, rules, done, tg) = {} =>
              (fin[1] = summaries /\ fin[2] = 0)
         /\ \A cur \in ElapsedWeeks(U, rules, done, tg) :
              (week_planned_total(rules, tg, cur) > 0
                 \/ local_week_done(done, tg, cur) > 0) =>
                \E i \in 1..Len(fin[1]) :
                  fin[1][i].owner = tg /\ WeekOfRow(fin[1][i]) = cur

(* --------------------------- elapsed weeks ---------------------------- *)
\* C23: every row is created for a week that has fully elapsed: read in local
\* time its week start is a Monday, its week end is the Sunday six days later,
\* and that Sunday lies before the Monday of the week in which the row is
\* created.
C23_RowsOfElapsedMondayWeeks ==
  [][\A i \in (Len(summaries) + 1)..Len(summaries') :
       LET ws == DateOf(FromUtc(summaries'[i].week_start))
           we == DateOf(FromUtc(summaries'[i].week_end))
       IN /\ Weekday(ws) = 0
          /\ we = ws + WeekDays - 1
          /\ we < Today - Weekday(Today)]_vars

(* ------------------------ rename of a recurring rule ------------------ *)
\* the weekdays a recurring rule fires on
DowsOfRule(r) == IF r.kind = "everyday" THEN AllDows ELSE day_numbers(r.days)

\* C24: a step that changes the text of an active daily or weekday rule leaves
\* exactly one job for the rule, with the rule's time and weekdays, the new
\* text and a fire time ahead; every dispatch of a daily or weekday rule
\* carries the text the rule has when the dispatch starts.
C24_RenameReplacesJob ==
  [][/\ \A rid \in (DOMAIN rules) \cap (DOMAIN rules') :
          (/\ rules[rid].active /\ rules[rid].kind # "once"
           /\ rules'[rid].text # rules[rid].text) =>
            /\ rules'[rid] = [rules[rid] EXCEPT !.text = rules'[rid].text,
                                                !.job_id = rules'[rid].job_id]
            /\ \E id \in DOMAIN jobs' :
                 /\ JobsOf(jobs', rid) = {id}
                 /\ rules'[rid].job_id = id
                 /\ jobs'[id].text = rules'[rid].text
                 /\ jobs'[id].time = rules[rid].time
                 /\ jobs'[id].dows = DowsOfRule(rules[rid])
                 /\ jobs'[id].next > now
     /\ \A f \in inflight' \ inflight :
          f.kind # "once" =>
            (f.rid \in DOMAIN rules /\ f.text = rules[f.rid].text)]_vars

\* a renamed recurring rule has been dispatched with its new text
C24_Witness ==
  \E f \in inflight :
    /\ f.kind # "once" /\ f.text \notin CreateTexts
    /\ f.rid \in DOMAIN rules /\ rules[f.rid].text = f.text
    /\ Cardinality(JobsOf(jobs, f.rid)) = 1

(* ------------------------------ job ids ------------------------------- *)
\* C25: the id of every job is JobId of its kind, rule id and owner, the id
\* stored in a rule row is the id JobId gives for that rule, two rules never
\* get the same id, and the registry holds at most one job per rule.
C25_OneJobPerRule ==
  /\ \A id \in DOMAIN jobs :
       id = JobId(jobs[id].kind, jobs[id].rid, jobs[id].tg)
  /\ \A rid \in DOMAIN rules :
       /\ rules[rid].job_id \in
            {NoJob, JobId(rules[rid].kind, rid, rules[rid].owner)}
       /\ \A other \in (DOMAIN rules) \ {rid} :
            JobId(rules[rid].kind, rid, rules[rid].owner) #
              JobId(rules[other].kind, other, rules[other].owner)
  /\ \A rid \in Rids : Cardinality(JobsOf(jobs, rid)) <= 1

\* two rules of one kind and one owner, one of them renamed, each with its job
C25_Witness ==
  \E r1, r2 \in DOMAIN rules :
    /\ r1 # r2
    /\ rules[r1].kind = rules[r2].kind /\ rules[r1].owner = rules[r2].owner
    /\ rules[r1].text \notin CreateTexts
    /\ JobsOf(jobs, r1) # {} /\ JobsOf(jobs, r2) # {}
    /\ restoreRuns >= MaxRestoreRuns

(* --------------------------- life of a job ---------------------------- *)
\* every id a job of the model can have
JobIds == {JobId(k, rid, tg) : k \in {"once", "everyday", "days"}, rid \in Rids,
                               tg \in Owners}

\* C26: a dispatch starts only from a registered job that is due; it takes a
\* one-shot job out of the registry and re-arms a daily or weekday job for a
\* later time; the end of a send changes no job; a job leaves the registry
\* only by the dispatch of a one-shot job, by a cancel or with the process;
\* remove_job takes the named job out whether or not a send for it is pending,
\* leaves every other job alone, and changes nothing for an id not registered.
C26_JobTransitions ==
  [][/\ \A f \in inflight' \ inflight :
          \E id \in JobsOf(jobs, f.rid) :
            /\ jobs[id].next <= now /\ jobs[id].kind = f.kind
            /\ IF f.kind = "once" THEN id \notin DOMAIN jobs'
               ELSE id \in DOMAIN jobs' /\ jobs'[id].next > now
     /\ \A f \in inflight \ inflight' : phase' = "running" => jobs' = jobs
     /\ \A id \in (DOMAIN jobs) \ (DOMAIN jobs') :
          \/ \E f \in inflight' \ inflight : f.rid = jobs[id].rid /\ f.kind = "once"
          \/ hist'[jobs[id].rid].deleted /\ ~hist[jobs[id].rid].deleted
          \/ phase' = "down"
     /\ \A rid \in Rids :
          (hist'[rid].deleted /\ ~hist[rid].deleted) =>
            (jobs' = remove_job(jobs, rules[rid].job_id) /\ JobsOf(jobs', rid) = {})
     /\ \A id \in JobIds :
          LET J2 == remove_job(jobs, id)
          IN /\ id \notin DOMAIN J2
             /\ \A other \in (DOMAIN jobs) \ {id} :
                  other \in DOMAIN J2 /\ J2[other] = jobs[other]
             /\ id \notin DOMAIN jobs => J2 = jobs]_vars

\* a one-shot rule was deleted after its job had fired (cancel of an id that
\* is not registered) and a daily or weekday rule while its send was pending
C26_Witness ==
  /\ \E rid \in Rids : hist[rid].deleted /\ hist[rid].n >= 1 /\ hist[rid].failed
  /\ \E f \in inflight :
       f.kind # "once" /\ hist[f.rid].deleted /\ JobsOf(jobs, f.rid) = {}

(* --------------------------- completion log --------------------------- *)
\* daily rules of user 1, their deletion, and the acknowledgments of both users
NextLog ==
  \/ \E t \in TimesOfDay, x \in CreateTexts : everyday_reminder(1, t, x)
  \/ \E rid \in Rids : delete_reminder_command(1, rid)
  \/ DoneRequests(Owners)
  \/ \E id \in DOMAIN jobs : Dispatch(id)
  \/ \E f \in inflight : DeliverOk(f)
  \/ Advance
  \/ restore_reminders_from_db
  \/ start_polling

SpecLog == Init /\ [][NextLog]_vars

\* C27: no step removes or changes a stored completion event; a step adds at
\* most one event, at the end, and only as the acknowledgment of a rule by its
\* owner, a step that changes no rule and no job; an acknowledgment that finds
\* the rule appends exactly one event and keeps the ones before it.
C27_LogAppendOnly ==
  [][/\ Len(done') >= Len(done) /\ Len(done') <= Len(done) + 1
     /\ \A i \in 1..Len(done) : done'[i] = done[i]
     /\ Len(done') = Len(done) + 1 =>
          LET e == done'[Len(done')]
          IN /\ e.rid \in DOMAIN rules
             /\ rules[e.rid].owner = e.owner
             /\ e.text = rules[e.rid].text
             /\ e.at = UtcNow
             /\ rules' = rules /\ jobs' = jobs /\ inflight' = inflight
     /\ \A tg \in Owners, rid \in Rids :
          done_lookup(rules, rid, tg) =>
            LET D2 == mark_workout_completed(done, rid, tg, rules[rid].text)
            IN /\ Len(D2) = Len(done) + 1
               /\ SubSeq(D2, 1, Len(done)) = done
               /\ D2[Len(D2)].owner = tg /\ D2[Len(D2)].rid = rid]_vars

\* two events of one rule are stored and the rule has been deleted since
C27_Witness ==
  /\ Len(done) = MaxDone
  /\ done[1].rid = done[MaxDone].rid
  /\ done[1].rid \notin DOMAIN rules
  /\ hist[done[1].rid].deleted
  /\ users[2] # None

(* ----------------------------- rule rows ------------------------------ *)
\* C28: every stored rule has a time of day with hour 0..23 and minute 0..59;
\* a weekday rule has a non-empty list of known weekdays in which no weekday
\* occurs twice; a one-shot or daily rule has no weekday list.
C28_RowsWellFormed ==
  \A rid \in DOMAIN rules :
    LET r == rules[rid]
    IN /\ r.time \div 60 \in 0..23 /\ r.time % 60 \in 0..59 /\ r.time >= 0
       /\ r.kind \in {"once", "everyday", "days"}
       /\ r.kind = "days" =>
            /\ Len(r.days) >= 1
            /\ \A i \in 1..Len(r.days) : IndexIn(RuDays, r.days[i]) # None
            /\ \A i, j \in 1..Len(r.days) : r.days[i] = r.days[j] => i = j
       /\ r.kind # "days" => r.days = <<>>

\* a weekday rule made from an input that names a weekday twice, next to a
\* rule of another kind
C28_Witness ==
  \E r1, r2 \in DOMAIN rules :
    /\ rules[r1].kind = "days"
    /\ rules[r1].days = days_list_to_str(parse_days(<<"mon", "fri", "mon">>)[2])
    /\ Len(rules[r1].days) = 2
    /\ rules[r2].kind # "days"

C31_OnceJobOnCreationDay ==
  \A id \in DOMAIN jobs :
    (jobs[id].kind = "once" /\ jobs[id].rid \in DOMAIN rules) =>
      DateOf(jobs[id].next) = DateOf(FromUtc(rules[jobs[id].rid].created))

(* ------------------------ weekdays of a /days rule -------------------- *)
\* every day list of at most MaxDayTokens Russian or English tokens
DayTokens == {RuDays[i] : i \in 1..WeekDays} \cup {EnDays[i] : i \in 1..WeekDays}
DayTokenInputs == UNION {[1..n -> DayTokens] : n \in 0..MaxDayTokens}

\* the day lists the requests carry: two Russian and two English tokens
RequestDayTokens == {"sr", "vs", "mon", "sat"}
RequestDayInputs ==
  {d \in DayTokenInputs : \A i \in 1..Len(d) : d[i] \in RequestDayTokens}

\* weekday rules of one owner made from these day lists, and the scheduler
NextDays ==
  \/ \E d \in RequestDayInputs, t \in TimesOfDay, x \in CreateTexts :
        days_reminder(1, d, t, x)
  \/ \E id \in DOMAIN jobs : Dispatch(id)
  \/ \E f \in inflight : DeliverOk(f)
  \/ Advance
  \/ restore_reminders_from_db
  \/ start_polling

SpecDays == Init /\ [][NextDays]_vars

\* the weekdays the user named in the day list d
EnteredDows(d) == {mapping(d[i]) : i \in 1..Len(d)}

\* the weekdays on which the rule r counts as planned
PlannedDows(r) ==
  {w \in AllDows : _planned_for_day(Put(EmptyFn, 1, r), r.owner, w) = 1}

\* the day lists stored for the accepted day lists
StoredDayLists ==
  {days_list_to_str(parse_days(d)[2]) : d \in {x \in DayTokenInputs : parse_days(x)[1]}}

\* a weekday rule of user 1 with the stored day list s
DaysRule(s) ==
  [owner |-> 1, kind |-> "days", time |-> 0, days |-> s, text |-> "Run",
   active |-> TRUE, created |-> 0, job_id |-> NoJob]

\* every non-empty day list is accepted, and the weekdays read from its stored
\* form by the scheduler and by the planned count are the weekdays entered
DayListsAgree ==
  \A d \in DayTokenInputs \ {<<>>} :
    /\ parse_days(d)[1]
    /\ LET s == days_list_to_str(parse_days(d)[2])
       IN /\ day_numbers(s) = EnteredDows(d)
          /\ PlannedDows(DaysRule(s)) = EnteredDows(d)

\* C32: for every non-empty day list of Russian or English tokens the job
\* weekdays and the planned weekdays of the rule made from it are the weekdays
\* the user named; every stored weekday rule holds the stored form of such a
\* list, has a job, and its job fires on exactly the weekdays it is planned on.
C32_JobDaysArePlannedDays ==
  /\ DayListsAgree
  /\ \A rid \in DOMAIN rules :
       rules[rid].kind = "days" =>
         /\ rules[rid].days \in StoredDayLists
         /\ JobsOf(jobs, rid) # {}
         /\ \A id \in JobsOf(jobs, rid) : jobs[id].dows = PlannedDows(rules[rid])
  /\ \A f \in inflight :
       (f.kind = "days" /\ f.rid \in DOMAIN rules) =>
         Weekday(DateOf(f.at)) \in PlannedDows(rules[f.rid])

\* a rule for two weekdays, Sunday among them, has fired on one of them
C32_Witness ==
  \E f \in inflight :
    /\ f.kind = "days" /\ f.rid \in DOMAIN rules
    /\ Cardinality(PlannedDows(rules[f.rid])) = MaxDayTokens
    /\ WeekDays - 1 \in PlannedDows(rules[f.rid])
    /\ \E id \in JobsOf(jobs, f.rid) : jobs[id].dows = PlannedDows(rules[f.rid])

(* -------------------- row ids given by SQLite ------------------------- *)
\* the id of a new row in a table declared without AUTOINCREMENT: one more
\* than the largest id in the table, so the id of a deleted last row is reused
next_rowid(R) ==
  IF DOMAIN R = {} THEN 1
  ELSE (CHOOSE x \in DOMAIN R : \A y \in DOMAIN R : y <= x) + 1

\* /add HH:MM text, the row id taken from the table
add_reminder_rowid(tg, t, text) ==
  /\ Ready
  /\ add_accepts(t)
  /\ LET rid == next_rowid(rules)
         R1 == create_reminder(rules, rid, tg, "once", t, text, <<>>)
         sch == schedule_once_reminder(jobs, rid, tg, t, text)
     IN /\ rid <= MaxRules
        /\ users' = get_or_create_user(users, tg)
        /\ jobs' = sch[1]
        /\ rules' = IF sch[2] # NoJob THEN set_job_id(R1, rid, sch[2]) ELSE R1
        /\ hist' = [hist EXCEPT ![rid].owner = tg]
  /\ UNCHANGED <<now, utcOffset, phase, restoreRuns, nextId, inflight, done,
                 summaries, reply>>

\* /everyday HH:MM text, the row id taken from the table
everyday_reminder_rowid(tg, t, text) ==
  /\ Ready
  /\ validate_time_format(t)
  /\ LET rid == next_rowid(rules)
         R1 == create_reminder(rules, rid, tg, "everyday", t, text, <<>>)
         sch == schedule_everyday_reminder(jobs, rid, tg, t, text)
     IN /\ rid <= MaxRules
        /\ users' = get_or_create_user(users, tg)
        /\ jobs' = sch[1]
        /\ rules' = IF sch[2] # NoJob THEN set_job_id(R1, rid, sch[2]) ELSE R1
        /\ hist' = [hist EXCEPT ![rid].owner = tg]
  /\ UNCHANGED <<now, utcOffset, phase, restoreRuns, nextId, inflight, done,
                 summaries, reply>>

\* rules of one owner stored in the SQLite table, /delete, and the scheduler
NextRowid ==
  \/ \E t \in TimesOfDay, x \in CreateTexts : add_reminder_rowid(1, t, x)
  \/ \E t \in TimesOfDay, x \in CreateTexts : everyday_reminder_rowid(1, t, x)
  \/ \E rid \in Rids : delete_reminder_command(1, rid)
  \/ SchedulerSteps
  \/ restore_reminders_from_db
  \/ start_polling

SpecRowid == Init /\ [][NextRowid]_vars

\* the send f is pending and the row of its rule has been deleted since the
\* dispatch: no row has the id, or the row with the id was written later
DeletedSince(f) ==
  f.rid \notin DOMAIN rules \/ rules[f.rid].created >= ToUtc(f.at)

\* C33: when a send ends, well or badly, for a rule that was deleted while the
\* send was pending, no row and no job is removed or changed, the row of the
\* rule stays absent and no job of the rule is registered.
C33_DeleteDuringSend ==
  [][\A f \in inflight \ inflight' :
       (DeletedSince(f) /\ phase' = "running") =>
         /\ rules' = rules
         /\ jobs' = jobs
         /\ f.rid \notin DOMAIN rules =>
              (f.rid \notin DOMAIN rules' /\ JobsOf(jobs', f.rid) = {})]_vars

====
